---- MODULE Spec2Model ----
(***************************************************************************)
(* Model of retroimg's colour-depth conversion (src/src/color.rs and       *)
(* src/src/color/cga.rs): the distance primitives, the colour mappers,     *)
(* the fixed / back-fore / best-of palettes, the palette builder loop and  *)
(* the buffer reconstruction.                                              *)
(***************************************************************************)
EXTENDS Integers, Sequences, FiniteSets, TLC

(***************************************************************************)
(* u64 arithmetic.  The loss values are Rust u64; the model checker's      *)
(* integers are narrower, so a u64 is held as eight little-endian bytes    *)
(* and the operations the code uses are computed on the bytes.             *)
(***************************************************************************)
U64Bytes == 8

U64Max == <<255, 255, 255, 255, 255, 255, 255, 255>>

U64Zero == <<0, 0, 0, 0, 0, 0, 0, 0>>

\* u64::from / `as u64` of a non-negative value below 2^31
U64From(n) ==
    <<n % 256, (n \div 256) % 256, (n \div 65536) % 256, n \div 16777216,
      0, 0, 0, 0>>

\* `d as u64` for an i64 d: two's complement, 2^64 + d when d is negative
\* (the bitwise complement of -d - 1)
AsU64(d) ==
    IF d >= 0 THEN U64From(d)
    ELSE LET m == U64From(-d - 1)
         IN  <<255 - m[1], 255 - m[2], 255 - m[3], 255 - m[4],
               255 - m[5], 255 - m[6], 255 - m[7], 255 - m[8]>>

RECURSIVE U64CmpFrom(_, _, _)
U64CmpFrom(x, y, i) ==
    IF i = 0 THEN 0
    ELSE IF x[i] < y[i] THEN -1
    ELSE IF x[i] > y[i] THEN 1
    ELSE U64CmpFrom(x, y, i - 1)

\* Ord::cmp on u64: -1 less, 0 equal, 1 greater
U64Cmp(x, y) == U64CmpFrom(x, y, U64Bytes)

U64Less(x, y) == U64Cmp(x, y) = -1

\* the bytes of x + y and the carry out of the top byte
RECURSIVE AddBytes(_, _, _, _)
AddBytes(x, y, i, carry) ==
    IF i > U64Bytes THEN <<carry>>
    ELSE LET s == x[i] + y[i] + carry
         IN  <<s % 256>> \o AddBytes(x, y, i + 1, s \div 256)

U64Low(w) == SubSeq(w, 1, U64Bytes)

\* a u64 below 2^30, as an integer; -1 when it is not below 2^30
U64Int(x) ==
    IF x[4] < 64 /\ \A i \in 5..U64Bytes : x[i] = 0
    THEN x[1] + 256 * x[2] + 65536 * x[3] + 16777216 * x[4]
    ELSE -1

\* at least 2^32: some byte above the fourth is set
U64High(x) == \E i \in 5..U64Bytes : x[i] # 0

\* u64 + u64 as Iterator::sum and `+` compute it (wrapping in release
\* builds); two operands below 2^30 are added as integers
U64Add(x, y) ==
    IF U64Int(x) >= 0 /\ U64Int(y) >= 0 THEN U64From(U64Int(x) + U64Int(y))
    ELSE U64Low(AddBytes(x, y, 1, 0))

\* u64::saturating_add (a sum with u64::MAX is u64::MAX)
saturating_add(x, y) ==
    IF U64Int(x) >= 0 /\ U64Int(y) >= 0 THEN U64From(U64Int(x) + U64Int(y))
    ELSE IF x = U64Max \/ y = U64Max THEN U64Max
    ELSE LET w == AddBytes(x, y, 1, 0)
         IN  IF w[U64Bytes + 1] # 0 THEN U64Max ELSE U64Low(w)

RECURSIVE MulColumn(_, _, _, _)
MulColumn(x, y, k, i) ==
    IF i > U64Bytes THEN 0
    ELSE (IF k + 1 - i \in 1..U64Bytes THEN x[i] * y[k + 1 - i] ELSE 0)
         + MulColumn(x, y, k, i + 1)

\* the 16 bytes of the full product x * y
RECURSIVE MulBytes(_, _, _, _)
MulBytes(x, y, k, carry) ==
    IF k > 2 * U64Bytes THEN <<>>
    ELSE LET s == MulColumn(x, y, k, 1) + carry
         IN  <<s % 256>> \o MulBytes(x, y, k + 1, s \div 256)

\* u64::saturating_mul: the product, or u64::MAX when it does not fit.
\* Two operands below 2^15 are multiplied as integers, two operands of at
\* least 2^32 saturate, the rest go through the full product.
saturating_mul(x, y) ==
    IF U64Int(x) >= 0 /\ U64Int(x) < 32768 /\ U64Int(y) >= 0 /\ U64Int(y) < 32768
    THEN U64From(U64Int(x) * U64Int(y))
    ELSE IF U64High(x) /\ U64High(y) THEN U64Max
    ELSE LET w == MulBytes(x, y, 1, 0)
         IN  IF \E k \in (U64Bytes + 1)..(2 * U64Bytes) : w[k] # 0
             THEN U64Max ELSE U64Low(w)

Pow2(n) == CASE n = 0 -> 1 [] n = 1 -> 2 [] n = 2 -> 4 [] n = 3 -> 8
             [] n = 4 -> 16 [] n = 5 -> 32 [] n = 6 -> 64 [] n = 7 -> 128

\* the truncated square root of a u64, found bit by bit from bit 31 down
\* (the root is below 2^32, so the square of a candidate never wraps)
RECURSIVE SqrtFrom(_, _, _)
SqrtFrom(x, root, bit) ==
    IF bit < 0 THEN root
    ELSE LET cand == [root EXCEPT ![(bit \div 8) + 1] = @ + Pow2(bit % 8)]
             sq   == U64Low(MulBytes(cand, cand, 1, 0))
         IN  IF U64Cmp(sq, x) <= 0 THEN SqrtFrom(x, cand, bit - 1)
             ELSE SqrtFrom(x, root, bit - 1)

\* the same on a value below 2^30 held as an integer (cand * cand <= n is
\* tested as cand <= n \div cand)
RECURSIVE IntSqrtFrom(_, _, _)
IntSqrtFrom(n, root, bit) ==
    IF bit < 0 THEN root
    ELSE LET cand == root + (IF bit >= 8 THEN 256 * Pow2(bit - 8) ELSE Pow2(bit))
         IN  IF cand <= n \div cand THEN IntSqrtFrom(n, cand, bit - 1)
             ELSE IntSqrtFrom(n, root, bit - 1)

\* the root of u64::MAX, 2^32 - 1 (Init checks it against SqrtFrom)
SqrtOfU64Max == <<255, 255, 255, 255, 0, 0, 0, 0>>

\* Roots::sqrt on u64: the truncated square root
U64Sqrt(x) ==
    IF U64Int(x) >= 0 THEN U64From(IntSqrtFrom(U64Int(x), 0, 15))
    ELSE IF x = U64Max THEN SqrtOfU64Max
    ELSE SqrtFrom(x, U64Zero, 31)

(***************************************************************************)
(* Colours and the two distances.                                          *)
(***************************************************************************)
Color(r, g, b, a) == [r |-> r, g |-> g, b |-> b, a |-> a]

Rgb(r, g, b) == Color(r, g, b, 255)

Abs(n) == IF n < 0 THEN -n ELSE n

\* an L1 distance that also counts the alpha channel
color_diff_l1_with_alpha(c1, c2) ==
    U64Add(U64Add(U64Add(AsU64(Abs(c1.r - c2.r)), AsU64(Abs(c1.g - c2.g))),
                  AsU64(Abs(c1.b - c2.b))),
           AsU64(Abs(c1.a - c2.a)))

color_diff_l1(c1, c2) ==
    U64Add(U64Add(AsU64(Abs(c1.r - c2.r)), AsU64(Abs(c1.g - c2.g))),
           AsU64(Abs(c1.b - c2.b)))

color_diff_l2(c1, c2) ==
    LET dr == AsU64(c1.r - c2.r)
        dg == AsU64(c1.g - c2.g)
        db == AsU64(c1.b - c2.b)
    IN  U64Sqrt(saturating_add(saturating_add(saturating_mul(dr, dr),
                                              saturating_mul(dg, dg)),
                               saturating_mul(db, db)))

color_diff(alg, c1, c2) ==
    IF alg = "L1" THEN color_diff_l1(c1, c2) ELSE color_diff_l2(c1, c2)

\* LossAlgorithm::image_diff after its length assertion: the zipped sum
RECURSIVE ZipSum(_, _, _, _)
ZipSum(alg, a, b, i) ==
    IF i > Len(a) \/ i > Len(b) THEN U64Zero
    ELSE U64Add(color_diff(alg, a[i], b[i]), ZipSum(alg, a, b, i + 1))

\* image_diff without the length assertion: zip stops at the shorter buffer
image_diff_unchecked(alg, a, b) ==
    [outcome |-> "ok", value |-> ZipSum(alg, a, b, 1)]

\* LossAlgorithm::image_diff: assert_eq!(a.len(), b.len()), then the sum
image_diff(alg, a, b) ==
    IF Len(a) # Len(b) THEN [outcome |-> "panic"]
    ELSE [outcome |-> "ok", value |-> ZipSum(alg, a, b, 1)]

(***************************************************************************)
(* Bit operations on u8.                                                   *)
(***************************************************************************)
RECURSIVE BitAnd(_, _)
BitAnd(x, y) ==
    IF x = 0 \/ y = 0 THEN 0
    ELSE (IF x % 2 = 1 /\ y % 2 = 1 THEN 1 ELSE 0)
         + 2 * BitAnd(x \div 2, y \div 2)

RECURSIVE BitOr(_, _)
BitOr(x, y) ==
    IF x = 0 /\ y = 0 THEN 0
    ELSE (IF x % 2 = 1 \/ y % 2 = 1 THEN 1 ELSE 0)
         + 2 * BitOr(x \div 2, y \div 2)

\* !m on a u8
BitNot(m) == 255 - m

RECURSIVE Shr(_, _)
Shr(x, n) == IF n = 0 THEN x ELSE Shr(x \div 2, n - 1)

(***************************************************************************)
(* Colour mappers.                                                         *)
(***************************************************************************)
\* a mapper that clears the two low bits of every channel
TrueColor24BitMapperMasked(pixel) ==
    Color(BitAnd(pixel.r, BitNot(3)), BitAnd(pixel.g, BitNot(3)),
          BitAnd(pixel.b, BitNot(3)), pixel.a)

TrueColor24BitMapper(pixel) == pixel

Vga18BitMapper(pixel) ==
    Color(BitOr(BitAnd(pixel.r, BitNot(3)), Shr(pixel.r, 6)),
          BitOr(BitAnd(pixel.g, BitNot(3)), Shr(pixel.g, 6)),
          BitOr(BitAnd(pixel.b, BitNot(3)), Shr(pixel.b, 6)),
          pixel.a)

\* a 5-5-5 mapper: green treated like red and blue
Vga16BitMapper555(pixel) ==
    Color(BitOr(BitAnd(pixel.r, BitNot(7)), Shr(pixel.r, 5)),
          BitOr(BitAnd(pixel.g, BitNot(7)), Shr(pixel.g, 5)),
          BitOr(BitAnd(pixel.b, BitNot(7)), Shr(pixel.b, 5)),
          pixel.a)

Vga16BitMapper(pixel) ==
    Color(BitOr(BitAnd(pixel.r, BitNot(7)), Shr(pixel.r, 5)),
          BitOr(BitAnd(pixel.g, BitNot(3)), Shr(pixel.g, 6)),
          BitOr(BitAnd(pixel.b, BitNot(7)), Shr(pixel.b, 5)),
          pixel.a)

\* MappingColorDepth<M>::convert_color: the wrapped mapper's convert_color
MappingConvertColor(mapper, c) ==
    CASE mapper = "TrueColor24Bit" -> TrueColor24BitMapper(c)
      [] mapper = "Vga18Bit" -> Vga18BitMapper(c)
      [] mapper = "Vga16Bit" -> Vga16BitMapper(c)

(***************************************************************************)
(* Static palettes.                                                        *)
(***************************************************************************)
BW_1BIT == << <<0, 0, 0>>, <<255, 255, 255>> >>

CGA_4BIT ==
    << <<0, 0, 0>>, <<0, 0, 170>>, <<0, 170, 0>>, <<0, 170, 170>>,
       <<170, 0, 0>>, <<170, 0, 170>>, <<170, 85, 0>>, <<170, 170, 170>>,
       <<85, 85, 85>>, <<85, 85, 255>>, <<85, 255, 85>>, <<85, 255, 255>>,
       <<255, 85, 85>>, <<255, 85, 255>>, <<255, 255, 85>>, <<255, 255, 255>> >>

CGA_MODE4_0_LOW == << <<0, 170, 0>>, <<170, 0, 0>>, <<170, 85, 0>> >>

CGA_MODE4_0_HIGH == << <<85, 255, 85>>, <<255, 85, 85>>, <<255, 255, 85>> >>

CGA_MODE4_1_LOW == << <<85, 255, 255>>, <<255, 85, 255>>, <<255, 255, 255>> >>

CGA_MODE4_1_HIGH == << <<85, 255, 255>>, <<255, 85, 255>>, <<255, 255, 255>> >>

MappingColorDepth(mapper) == [kind |-> "Mapping", mapper |-> mapper]

FixedPalette(palette) == [kind |-> "Fixed", palette |-> palette]

BackForePalette(back, fore) == [kind |-> "BackFore", back |-> back, fore |-> fore]

BestPalette(cands) == [kind |-> "Best", cands |-> cands]

TrueColor24Bit == MappingColorDepth("TrueColor24Bit")

Vga18Bit == MappingColorDepth("Vga18Bit")

Vga16Bit == MappingColorDepth("Vga16Bit")

PALETTE_BW_1BIT == FixedPalette(BW_1BIT)

PALETTE_CGA_4BIT == FixedPalette(CGA_4BIT)

PALETTE_CGA_MODE4_1_HIGH == BackForePalette(CGA_4BIT, CGA_MODE4_1_HIGH)

PALETTE_CGA_MODE4_0_HIGH == BackForePalette(CGA_4BIT, CGA_MODE4_0_HIGH)

PALETTE_CGA_MODE4_1_LOW == BackForePalette(CGA_4BIT, CGA_MODE4_1_LOW)

PALETTE_CGA_MODE4_0_LOW == BackForePalette(CGA_4BIT, CGA_MODE4_0_LOW)

PALETTE_CGA_MODE4 ==
    BestPalette(<< BackForePalette(CGA_4BIT, CGA_MODE4_0_LOW),
                   BackForePalette(CGA_4BIT, CGA_MODE4_0_HIGH),
                   BackForePalette(CGA_4BIT, CGA_MODE4_1_LOW),
                   BackForePalette(CGA_4BIT, CGA_MODE4_1_HIGH) >>)

(***************************************************************************)
(* Nearest palette entry, median colour.                                   *)
(***************************************************************************)
\* a key that orders the entries from farthest to nearest
PaletteKeyNegated(pixel, entry) ==
    LET rd == pixel.r - entry[1]
        rg == pixel.g - entry[2]
        rb == pixel.b - entry[3]
    IN  0 - (rd * rd + rg * rg + rb * rb)

\* the key of min_by_key: squared distance of pixel to the entry, in i32
PaletteKey(pixel, entry) ==
    LET rd == pixel.r - entry[1]
        rg == pixel.g - entry[2]
        rb == pixel.b - entry[3]
    IN  rd * rd + rg * rg + rb * rb

\* a search in which a later entry replaces the minimum on an equal key
RECURSIVE MinByKeyFromLast(_, _, _, _)
MinByKeyFromLast(pixel, palette, i, m) ==
    IF i > Len(palette) THEN m
    ELSE IF PaletteKey(pixel, palette[i]) <= PaletteKey(pixel, palette[m])
         THEN MinByKeyFromLast(pixel, palette, i + 1, i)
         ELSE MinByKeyFromLast(pixel, palette, i + 1, m)

\* Iterator::min_by_key: the index of the first entry with the least key
RECURSIVE MinByKeyFrom(_, _, _, _)
MinByKeyFrom(pixel, palette, i, m) ==
    IF i > Len(palette) THEN m
    ELSE IF PaletteKey(pixel, palette[i]) < PaletteKey(pixel, palette[m])
         THEN MinByKeyFrom(pixel, palette, i + 1, i)
         ELSE MinByKeyFrom(pixel, palette, i + 1, m)

\* FixedPalette::convert_color (and BackForePalette::convert_color, the same
\* code over a given palette)
FixedConvertColor(palette, pixel) ==
    LET e == palette[MinByKeyFrom(pixel, palette, 2, 1)]
    IN  Color(e[1], e[2], e[3], 255)

\* Itertools::collect_vec: the mapped iterator, materialised
collect_vec(f) == f \o <<>>

\* the values of a channel sequence in ascending order (sort_unstable)
RECURSIVE SortedSeq(_)
SortedSeq(s) ==
    IF Len(s) = 0 THEN <<>>
    ELSE LET i == CHOOSE k \in 1..Len(s) : \A j \in 1..Len(s) : s[k] <= s[j]
         IN  <<s[i]>> \o SortedSeq(SubSeq(s, 1, i - 1) \o SubSeq(s, i + 1, Len(s)))

color_median(colors) ==
    LET colors_r == SortedSeq(collect_vec([i \in 1..Len(colors) |-> colors[i].r]))
        colors_g == SortedSeq(collect_vec([i \in 1..Len(colors) |-> colors[i].g]))
        colors_b == SortedSeq(collect_vec([i \in 1..Len(colors) |-> colors[i].b]))
    IN  Color(colors_r[(Len(colors_r) \div 2) + 1],
              colors_r[(Len(colors_g) \div 2) + 1],
              colors_r[(Len(colors_b) \div 2) + 1],
              255)

\* image.pixels() collected as colours with alpha 255
Original(img) ==
    collect_vec([i \in 1..Len(img) |-> Color(img[i][1], img[i][2], img[i][3], 255)])

\* BackForePalette::background_color
background_color(img) == color_median(Original(img))

\* BackForePalette::convert_color_back
convert_color_back(d, pixel) == FixedConvertColor(d.back, pixel)

\* the palette BackForePalette converts with: foreground plus the background
AugmentedPalette(d, img) ==
    LET bkg_color == convert_color_back(d, background_color(img))
    IN  Append(d.fore, <<bkg_color.r, bkg_color.g, bkg_color.b>>)

(***************************************************************************)
(* Bounds and input domains.                                               *)
(***************************************************************************)
MaxLen == 2

MaxColors == 2

MaxDim == 2

MaxPaletteLen == 2

\* the pixel values images are drawn from
ImagePixels == { <<0, 0, 0>>, <<128, 128, 128>>, <<200, 100, 50>> }

\* the colours the distance functions are called with (alpha varies)
DiffColors ==
    { Rgb(p[1], p[2], p[3]) : p \in ImagePixels }
        \cup { Color(0, 0, 0, 0), Color(255, 255, 255, 255), Color(200, 100, 51, 7) }

\* the colours buffers handed to image_diff and colors_to_image are made of
BufferColors == { Rgb(0, 0, 0), Rgb(255, 255, 255), Rgb(200, 100, 50) }

SeqsUpTo(S, n) == UNION { [1..k -> S] : k \in 0..n }

\* the colours convert_color is called with
PixelColors == DiffColors \cup { Rgb(1, 0, 0) }

\* the entries palette arrays other than the static ones are made of
PaletteEntries == { <<0, 0, 0>>, <<2, 0, 0>>, <<255, 255, 255>> }

\* non-empty palette arrays: the static ones, and short ones that may hold
\* an entry twice or two entries at the same distance of a colour
PaletteArrays ==
    { BW_1BIT, CGA_4BIT, CGA_MODE4_0_LOW, CGA_MODE4_0_HIGH, CGA_MODE4_1_HIGH }
        \cup (SeqsUpTo(PaletteEntries, MaxPaletteLen) \ { <<>> })

Images == SeqsUpTo(ImagePixels, MaxLen) \ { <<>> }

LossAlgorithms == { "L1", "L2" }

None == <<>>

Some(x) == <<x>>

\* ColorOptions: num_colors is None or Some(n)
ColorOptionsSet ==
    [num_colors : { None } \cup { Some(n) : n \in 0..MaxColors },
     loss : LossAlgorithms]

\* the depths main() can select (the EGA palette aside)
ColorDepths ==
    { TrueColor24Bit, Vga18Bit, Vga16Bit, PALETTE_CGA_4BIT, PALETTE_CGA_MODE4,
      PALETTE_CGA_MODE4_1_HIGH, PALETTE_BW_1BIT }

(***************************************************************************)
(* State.                                                                  *)
(***************************************************************************)
VARIABLES
    pc,         \* "idle", "convert", "build_palette", "remap", "done"
    depth,      \* the ColorDepth convert_image_with_loss was called on
    image,      \* its image argument, a row-major sequence of Rgb pixels
    options,    \* its ColorOptions argument
    cand,       \* BestPalette: index of the candidate being evaluated, else 0
    best,       \* BestPalette: min_by_key's running minimum, None or Some
    yielded,    \* BestPalette: what the candidates evaluated so far returned
    quantizer,  \* build_palette: quantizer.num_colors()
    palette,    \* the palette build_palette returned
    ret         \* the outcome of the last completed call

vars == <<pc, depth, image, options, cand, best, yielded, quantizer, palette, ret>>

NoDepth == [kind |-> "none"]

NoOptions == [num_colors |-> None, loss |-> "L2"]

NoRet == [op |-> "none"]

Init ==
    /\ SqrtOfU64Max = SqrtFrom(U64Max, U64Zero, 31)
    /\ pc = "idle"
    /\ depth = NoDepth
    /\ image = <<>>
    /\ options = NoOptions
    /\ cand = 0
    /\ best = None
    /\ yielded = <<>>
    /\ quantizer = 0
    /\ palette = <<>>
    /\ ret = NoRet

\* no conversion in progress: the state a free-standing call leaves behind
Cleared ==
    /\ depth' = NoDepth
    /\ image' = <<>>
    /\ options' = NoOptions
    /\ cand' = 0
    /\ best' = None
    /\ yielded' = <<>>
    /\ quantizer' = 0
    /\ palette' = <<>>

\* calls are made one at a time
Ready == pc = "idle"

\* the caller takes the outcome; nothing is kept between calls
Return ==
    /\ pc = "done"
    /\ pc' = "idle"
    /\ ret' = NoRet
    /\ Cleared

(***************************************************************************)
(* Free-standing calls.                                                    *)
(***************************************************************************)
ColorDiffCall ==
    /\ Ready
    /\ \E alg \in LossAlgorithms, c1 \in DiffColors, c2 \in DiffColors :
          ret' = [op |-> "color_diff", alg |-> alg, c1 |-> c1, c2 |-> c2,
                  value |-> color_diff(alg, c1, c2)]
    /\ pc' = "done"
    /\ Cleared

ImageDiffCall ==
    /\ Ready
    /\ \E alg \in LossAlgorithms,
          a \in SeqsUpTo(BufferColors, MaxLen), b \in SeqsUpTo(BufferColors, MaxLen) :
          ret' = [op |-> "image_diff", alg |-> alg, a |-> a, b |-> b,
                  res |-> image_diff(alg, a, b)]
    /\ pc' = "done"
    /\ Cleared

\* the flat_map of colors_to_image: r, g, b of every colour in order
RECURSIVE FlatRgb(_)
FlatRgb(pixels) ==
    IF Len(pixels) = 0 THEN <<>>
    ELSE <<pixels[1].r, pixels[1].g, pixels[1].b>> \o FlatRgb(Tail(pixels))

\* a from_raw that accepts only a container of exactly width * height * 3
from_raw_exact(width, height, buf) ==
    IF width * height * 3 = Len(buf)
    THEN Some([width |-> width, height |-> height, data |-> buf])
    ELSE None

\* ImageBuffer::from_raw: None when the container holds fewer than
\* width * height * 3 subpixels, else the buffer over the whole container
from_raw(width, height, buf) ==
    IF width * height * 3 <= Len(buf)
    THEN Some([width |-> width, height |-> height, data |-> buf])
    ELSE None

\* colors_to_image: from_raw(...).expect("there should be enough pixels")
colors_to_image(width, height, pixels) ==
    LET img == from_raw(width, height, FlatRgb(pixels))
    IN  IF img = None THEN [outcome |-> "panic"]
        ELSE [outcome |-> "ok", image |-> img[1]]

ColorsToImageCall ==
    /\ Ready
    /\ \E width \in 0..MaxDim, height \in 0..MaxDim,
          pixels \in SeqsUpTo(BufferColors, MaxLen + 1) :
          ret' = [op |-> "colors_to_image", width |-> width, height |-> height,
                  pixels |-> pixels,
                  res |-> colors_to_image(width, height, pixels)]
    /\ pc' = "done"
    /\ Cleared

Min(S) == CHOOSE x \in S : \A y \in S : x <= y

Max(S) == CHOOSE x \in S : \A y \in S : x >= y

(***************************************************************************)
(* crop (src/src/lib.rs).                                                   *)
(***************************************************************************)
\* an image buffer of the given size whose pixel at (x, y) is [x, y, seed]
TestImage(width, height, seed) ==
    [width |-> width, height |-> height,
     data |-> collect_vec([n \in 1..(3 * width * height) |->
                 LET k == (n - 1) \div 3
                 IN  CASE (n - 1) % 3 = 0 -> k % width
                       [] (n - 1) % 3 = 1 -> k \div width
                       [] (n - 1) % 3 = 2 -> seed])]

\* the images crop is called with
CropImages ==
    { TestImage(width, height, seed) :
        width \in 0..MaxDim, height \in 0..MaxDim, seed \in {0, 200} }

\* GenericImageView::get_pixel, x and y from 0
get_pixel(img, x, y) ==
    LET i == y * img.width + x
    IN  <<img.data[3 * i + 1], img.data[3 * i + 2], img.data[3 * i + 3]>>

\* a copy that reads the source from its origin whatever the offsets are
to_image_from_origin(img, xoffset, yoffset, width, height) ==
    [width |-> width, height |-> height,
     data |-> collect_vec([n \in 1..(3 * width * height) |->
                 LET k == (n - 1) \div 3
                 IN  get_pixel(img, k % width, k \div width)[((n - 1) % 3) + 1]])]

\* SubImage::to_image: a new buffer of the view's size, its pixel at (x, y)
\* the source's at (x + xoffset, y + yoffset)
to_image(img, xoffset, yoffset, width, height) ==
    [width |-> width, height |-> height,
     data |-> collect_vec([n \in 1..(3 * width * height) |->
                 LET k == (n - 1) \div 3
                 IN  get_pixel(img, (k % width) + xoffset,
                               (k \div width) + yoffset)[((n - 1) % 3) + 1]])]

\* the rectangle lies inside the image
Inside(img, left, top, width, height) ==
    left + width <= img.width /\ top + height <= img.height

\* crop: imageops::crop(&mut image, left, top, width, height).to_image().
\* A rectangle inside the image is copied as it is.  One that reaches
\* outside is clamped to the image by imageops::crop, or, where the view
\* is not clamped, to_image panics reading past the buffer: both outcomes.
crop(img, left, top, width, height) ==
    LET x == Min({left, img.width})
        y == Min({top, img.height})
        w == Min({width, img.width - x})
        h == Min({height, img.height - y})
    IN  { [outcome |-> "ok", image |-> to_image(img, x, y, w, h)] }
            \cup (IF Inside(img, left, top, width, height) THEN {}
                  ELSE { [outcome |-> "panic"] })

CropCall ==
    /\ Ready
    /\ \E img \in CropImages, left \in 0..MaxDim, top \in 0..MaxDim,
          width \in 0..MaxDim, height \in 0..MaxDim :
          \E res \in crop(img, left, top, width, height) :
             ret' = [op |-> "crop", image |-> img, left |-> left, top |-> top,
                     width |-> width, height |-> height, res |-> res]
    /\ pc' = "done"
    /\ Cleared

(***************************************************************************)
(* resolve_output_resolution (src/src/lib.rs): Ratio<u32> arithmetic.      *)
(* A u32 product that does not fit panics where overflow checks are        *)
(* compiled in and wraps modulo 2^32 where they are not.                   *)
(***************************************************************************)
\* what a panicking operation leaves in place of a u32, and of a Ratio
Panic == 0 - 1

PanicRatio == [numer |-> Panic, denom |-> 1]

\* u32 `*`: the product, by way of the exact 64-bit product
U32Mul(overflow_checks, a, b) ==
    IF a = Panic \/ b = Panic THEN Panic
    ELSE LET p == saturating_mul(U64From(a), U64From(b))
             low == <<p[1], p[2], p[3], p[4], 0, 0, 0, 0>>
         IN  IF p = low THEN U64Int(p)
             ELSE IF overflow_checks THEN Panic
             ELSE U64Int(low)

RECURSIVE Gcd(_, _)
Gcd(a, b) == IF b = 0 THEN a ELSE Gcd(b, a % b)

\* Ratio::new: panics on a zero denominator, else the reduced fraction
RatioNew(numer, denom) ==
    IF numer = Panic \/ denom = Panic THEN PanicRatio
    ELSE IF denom = 0 THEN PanicRatio
    ELSE LET g == Gcd(numer, denom)
         IN  [numer |-> numer \div g, denom |-> denom \div g]

from_integer(t) == [numer |-> t, denom |-> 1]

\* Ratio<T> * T
RatioMulInt(overflow_checks, x, t) ==
    IF x.numer = Panic THEN PanicRatio
    ELSE LET g == Gcd(x.denom, t)
         IN  RatioNew(U32Mul(overflow_checks, x.numer, t \div g), x.denom \div g)

\* Ratio<T> / T
RatioDivInt(overflow_checks, x, t) ==
    IF x.numer = Panic THEN PanicRatio
    ELSE LET g == Gcd(x.numer, t)
         IN  RatioNew(x.numer \div g, U32Mul(overflow_checks, x.denom, t \div g))

\* Ratio<T> * Ratio<T>
RatioMul(overflow_checks, x, y) ==
    IF x.numer = Panic \/ y.numer = Panic THEN PanicRatio
    ELSE LET gcd_ad == Gcd(x.numer, y.denom)
             gcd_bc == Gcd(x.denom, y.numer)
         IN  RatioNew(U32Mul(overflow_checks, x.numer \div gcd_ad, y.numer \div gcd_bc),
                      U32Mul(overflow_checks, x.denom \div gcd_bc, y.denom \div gcd_ad))

\* Ratio<T> / Ratio<T>
RatioDiv(overflow_checks, x, y) ==
    IF x.numer = Panic \/ y.numer = Panic THEN PanicRatio
    ELSE LET gcd_ac == Gcd(x.numer, y.numer)
             gcd_bd == Gcd(x.denom, y.denom)
         IN  RatioNew(U32Mul(overflow_checks, x.numer \div gcd_ac, y.denom \div gcd_bd),
                      U32Mul(overflow_checks, x.denom \div gcd_bd, y.numer \div gcd_ac))

\* .round().to_integer(): halves round away from zero
RoundToInteger(x) ==
    IF x.numer = Panic THEN Panic
    ELSE LET trunc == x.numer \div x.denom
             fract == x.numer % x.denom
             half_or_larger ==
                 IF x.denom % 2 = 0 THEN fract >= x.denom \div 2
                 ELSE fract >= (x.denom \div 2) + 1
         IN  IF half_or_larger THEN trunc + 1 ELSE trunc

Ok(w, h) ==
    IF w = Panic \/ h = Panic THEN [outcome |-> "panic"]
    ELSE [outcome |-> "ok", value |-> <<w, h>>]

Err(e) == [outcome |-> "err", error |-> e]

resolve_output_resolution(overflow_checks, width, height, output_width, output_height, pixel_ratio) ==
    CASE pixel_ratio = None /\ output_width = None /\ output_height = None ->
           Err("Non")
      [] pixel_ratio = None /\ output_width # None /\ output_height # None ->
           Ok(output_width[1], output_height[1])
      [] pixel_ratio # None /\ output_width = None /\ output_height # None ->
           LET r == pixel_ratio[1]
               h == output_height[1]
               w == RoundToInteger(
                        RatioDivInt(overflow_checks,
                            RatioMulInt(overflow_checks,
                                RatioMulInt(overflow_checks, r, h), width),
                            height))
           IN  Ok(w, h)
      [] pixel_ratio # None /\ output_width # None /\ output_height = None ->
           LET r == pixel_ratio[1]
               w == output_width[1]
               h == RoundToInteger(
                        RatioDiv(overflow_checks,
                            RatioMulInt(overflow_checks, from_integer(w), height),
                            RatioMulInt(overflow_checks, r, width)))
           IN  Ok(w, h)
      [] pixel_ratio = None /\ output_width = None /\ output_height # None ->
           LET h == output_height[1]
               ir == RatioNew(width, height)
               w == RoundToInteger(RatioMul(overflow_checks, from_integer(h), ir))
           IN  Ok(w, h)
      [] pixel_ratio = None /\ output_width # None /\ output_height = None ->
           LET w == output_width[1]
               ir == RatioNew(width, height)
               h == RoundToInteger(RatioDiv(overflow_checks, from_integer(w), ir))
           IN  Ok(w, h)
      [] pixel_ratio # None /\ output_width = None /\ output_height = None ->
           Err("RatioWithoutSide")
      [] pixel_ratio # None /\ output_width # None /\ output_height # None ->
           Err("TooMany")

\* image sides: small ones and one whose square does not fit a u32
Sides == { 1, 2, 3, 131072 }

\* pixel ratios, reduced
Ratios ==
    { [numer |-> 1, denom |-> 1], [numer |-> 1, denom |-> 2],
      [numer |-> 2, denom |-> 1], [numer |-> 4, denom |-> 3] }

Options(S) == { None } \cup { Some(x) : x \in S }

ResolveOutputResolutionCall ==
    /\ Ready
    /\ \E overflow_checks \in BOOLEAN, width \in Sides, height \in Sides,
          output_width \in Options(Sides \cup {0}),
          output_height \in Options(Sides \cup {0}),
          pixel_ratio \in Options(Ratios) :
          ret' = [op |-> "resolve_output_resolution",
                  width |-> width, height |-> height,
                  output_width |-> output_width, output_height |-> output_height,
                  pixel_ratio |-> pixel_ratio,
                  res |-> resolve_output_resolution(overflow_checks, width, height,
                              output_width, output_height, pixel_ratio)]
    /\ pc' = "done"
    /\ Cleared

\* BackForePalette::background_color on an image
BackgroundColorCall ==
    /\ Ready
    /\ \E img \in Images :
          ret' = [op |-> "background_color", image |-> img,
                  value |-> background_color(img)]
    /\ pc' = "done"
    /\ Cleared

\* FixedPalette::convert_color on a colour, and on what it returned
ConvertColorCall ==
    /\ Ready
    /\ \E palette_array \in PaletteArrays, pixel \in PixelColors :
          \E value \in { FixedConvertColor(palette_array, pixel) } :
             ret' = [op |-> "convert_color", palette |-> palette_array,
                     pixel |-> pixel, value |-> value,
                     again |-> FixedConvertColor(palette_array, value)]
    /\ pc' = "done"
    /\ Cleared

(***************************************************************************)
(* convert_image_with_loss.                                                *)
(***************************************************************************)
\* the strategy whose convert_image_with_loss is running: the depth itself,
\* or the candidate BestPalette's iterator is at
Leaf == IF depth.kind = "Best" THEN depth.cands[cand] ELSE depth

\* the colour function the leaf reduces a built palette with
LeafConvertColor(d, img, c) ==
    CASE d.kind = "Mapping" -> MappingConvertColor(d.mapper, c)
      [] d.kind = "Fixed" -> FixedConvertColor(d.palette, c)
      [] d.kind = "BackFore" -> FixedConvertColor(AugmentedPalette(d, img), c)

\* the buffer handed to build_palette and to the remapper: the mapped pixels
\* for MappingColorDepth, the original pixels for the palette depths
QuantInput(d, img) ==
    IF d.kind = "Mapping"
    THEN LET original == Original(img)
         IN  collect_vec([i \in 1..Len(img) |->
                             MappingConvertColor(d.mapper, original[i])])
    ELSE Original(img)

\* the converted pixels when options.num_colors is None
UncappedPixels(d, img) ==
    IF d.kind = "Mapping"
    THEN LET original == Original(img)
         IN  collect_vec([i \in 1..Len(img) |->
                             MappingConvertColor(d.mapper, original[i])])
    ELSE Original(img)

\* the loss computed by L1 whatever options.loss says
WithLossPinnedL1(opts, img, converted_pixels) ==
    [pixels |-> converted_pixels,
     loss |-> image_diff("L1", Original(img), converted_pixels).value]

\* (converted_pixels, loss): the loss is options.loss.image_diff
WithLoss(opts, img, converted_pixels) ==
    [pixels |-> converted_pixels,
     loss |-> image_diff(opts.loss, Original(img), converted_pixels).value]

\* a fold step that lets a later element replace the minimum on a tie
MinByKeyStepLast(acc, x) ==
    IF acc = None THEN Some(x)
    ELSE IF U64Less(acc[1].loss, x.loss) THEN acc ELSE Some(x)

\* min_by_key's fold step: the later element replaces the running minimum
\* only when its key is strictly smaller
MinByKeyStep(acc, x) ==
    IF acc = None THEN Some(x)
    ELSE IF U64Less(x.loss, acc[1].loss) THEN Some(x) ELSE acc

\* a leaf's convert_image_with_loss returns `pair`
Deliver(pair) ==
    IF depth.kind = "Best"
    THEN /\ best' = MinByKeyStep(best, pair)
         /\ yielded' = Append(yielded, pair)
         /\ IF cand < Len(depth.cands)
            THEN /\ cand' = cand + 1
                 /\ pc' = "convert"
                 /\ ret' = ret
            ELSE /\ cand' = cand
                 /\ pc' = "done"
                 /\ ret' = [op |-> "convert_image_with_loss",
                            pixels |-> best'[1].pixels, loss |-> best'[1].loss]
    ELSE /\ best' = best
         /\ yielded' = yielded
         /\ cand' = cand
         /\ pc' = "done"
         /\ ret' = [op |-> "convert_image_with_loss",
                    pixels |-> pair.pixels, loss |-> pair.loss]

ConvertImageWithLoss ==
    /\ Ready
    /\ \E d \in ColorDepths, img \in Images, opts \in ColorOptionsSet :
          /\ depth' = d
          /\ image' = img
          /\ options' = opts
          /\ cand' = IF d.kind = "Best" THEN 1 ELSE 0
    /\ best' = None
    /\ yielded' = <<>>
    /\ quantizer' = 0
    /\ palette' = <<>>
    /\ ret' = NoRet
    /\ pc' = "convert"

ConvertUncapped ==
    /\ pc = "convert"
    /\ options.num_colors = None
    /\ \E pair \in { WithLoss(options, image, UncappedPixels(Leaf, image)) } :
          Deliver(pair)
    /\ UNCHANGED <<depth, image, options, quantizer, palette>>

\* build_palette up to Quantizer::new, which holds one colour
BuildPaletteEnter ==
    /\ pc = "convert"
    /\ options.num_colors # None
    /\ quantizer' = 1
    /\ pc' = "build_palette"
    /\ UNCHANGED <<depth, image, options, cand, best, yielded, palette, ret>>

\* a loop that tests the count after growing rather than before
while_condition_inclusive(quantizer_num_colors, num_colors) ==
    quantizer_num_colors <= num_colors

\* build_palette's loop condition: quantizer.num_colors() < num_colors
while_condition(quantizer_num_colors, num_colors) ==
    quantizer_num_colors < num_colors

\* one iteration of build_palette's loop: step() splits one cluster in two;
\* optimize() at a multiple of 256 keeps the number of colours
QuantizerStep ==
    /\ pc = "build_palette"
    /\ while_condition(quantizer, options.num_colors[1])
    /\ quantizer' = quantizer + 1
    /\ UNCHANGED <<pc, depth, image, options, cand, best, yielded, palette, ret>>

\* the colours a cluster centre over `pixels` can be: within the pixels'
\* range in every channel
ClusterColors(pixels) ==
    LET R == { pixels[i].r : i \in 1..Len(pixels) }
        G == { pixels[i].g : i \in 1..Len(pixels) }
        B == { pixels[i].b : i \in 1..Len(pixels) }
    IN  { c \in { Rgb(p[1], p[2], p[3]) : p \in ImagePixels }
                    \cup { pixels[i] : i \in 1..Len(pixels) } :
            /\ Min(R) <= c.r /\ c.r <= Max(R)
            /\ Min(G) <= c.g /\ c.g <= Max(G)
            /\ Min(B) <= c.b /\ c.b <= Max(B) }

\* the palette lists its clusters in one order; which order it is changes
\* the indices the remapper returns but not the colours they stand for, so
\* one order stands for all of them
InClusterOrder(p) ==
    \A k \in 1..(Len(p) - 1) :
        (p[k].r * 256 + p[k].g) * 256 + p[k].b
            <= (p[k + 1].r * 256 + p[k + 1].g) * 256 + p[k + 1].b

\* build_palette returns: quantizer.colors() refined by optimize_palette,
\* one colour per cluster
BuildPaletteReturn ==
    /\ pc = "build_palette"
    /\ ~while_condition(quantizer, options.num_colors[1])
    /\ IF cand > 1
       THEN palette' = palette    \* same buffer, same count: the same palette
       ELSE palette' \in { p \in [1..quantizer -> ClusterColors(QuantInput(Leaf, image))] :
                               InClusterOrder(p) }
    /\ pc' = "remap"
    /\ UNCHANGED <<depth, image, options, cand, best, yielded, quantizer, ret>>

\* the rest of the capped branch: reduce the palette's colour depth, remap
\* (one palette index per pixel), look the indices up, compute the loss
Remap ==
    /\ pc = "remap"
    /\ \E reduced \in { collect_vec([k \in 1..Len(palette) |->
                                         LeafConvertColor(Leaf, image, palette[k])]) } :
       \E converted_pixels \in
              { collect_vec([i \in 1..Len(image) |-> reduced[indexed_data[i]]]) :
                  indexed_data \in [1..Len(image) -> 1..Len(reduced)] } :
          \E pair \in { WithLoss(options, image, converted_pixels) } :
              Deliver(pair)
    /\ UNCHANGED <<depth, image, options, quantizer, palette>>

Next ==
    \/ ColorDiffCall
    \/ ImageDiffCall
    \/ ColorsToImageCall
    \/ ConvertColorCall
    \/ BackgroundColorCall
    \/ CropCall
    \/ ResolveOutputResolutionCall
    \/ ConvertImageWithLoss
    \/ ConvertUncapped
    \/ BuildPaletteEnter
    \/ QuantizerStep
    \/ BuildPaletteReturn
    \/ Remap
    \/ Return

Spec == Init /\ [][Next]_vars

(***************************************************************************)
(* Properties.                                                             *)
(***************************************************************************)
\* the call `op` has returned and its outcome is in ret
Returned(op) == pc = "done" /\ ret.op = op

Converted == Returned("convert_image_with_loss")

\* C1 as stated: for any image and any options, num_colors absent or
\* present, TrueColor24Bit.convert_image_with_loss returns the input pixels
\* unchanged, in order, and a loss of 0.
C1_IdentityAnyOptions ==
    (Converted /\ depth = TrueColor24Bit)
        => (ret.pixels = Original(image) /\ ret.loss = U64Zero)

\* C1 amended: when options.num_colors is absent, under either loss metric,
\* TrueColor24Bit.convert_image_with_loss returns the input pixels unchanged,
\* in order, and a loss of 0.
C1_IdentityUncapped ==
    (Converted /\ depth = TrueColor24Bit /\ options.num_colors = None)
        => (ret.pixels = Original(image) /\ ret.loss = U64Zero)

C1_Witness ==
    /\ Converted
    /\ depth = TrueColor24Bit
    /\ options.num_colors = None
    /\ options.loss = "L2"
    /\ Len(image) = 2
    /\ image[1] = <<200, 100, 50>>
    /\ image[2] = <<128, 128, 128>>
    /\ ret.pixels = << Rgb(200, 100, 50), Rgb(128, 128, 128) >>

\* the colours of a palette array
PaletteColors(palette_array) ==
    { Rgb(palette_array[k][1], palette_array[k][2], palette_array[k][3]) :
        k \in 1..Len(palette_array) }

\* C2: for a FixedPalette converted with options.num_colors absent, every
\* pixel returned by convert_image_with_loss is exactly one entry of the
\* configured palette array, for every input image.
C2_UncappedFixedSnaps ==
    (Converted /\ depth.kind = "Fixed" /\ options.num_colors = None)
        => \A i \in 1..Len(ret.pixels) :
              ret.pixels[i] \in PaletteColors(depth.palette)

\* C3: for all pairs of colours (a, b), color_diff(a, b) = color_diff(b, a),
\* under both L1 and L2.
C3_ColorDiffSymmetric ==
    Returned("color_diff")
        => ret.value = color_diff(ret.alg, ret.c2, ret.c1)

\* C4: under both L1 and L2, color_diff(a, b) is 0 if and only if a and b
\* have equal r, g and b channels, whatever their alpha; in particular
\* color_diff(c, c) = 0 for every colour c.
C4_ZeroIffEqualRgb ==
    Returned("color_diff")
        => ((ret.value = U64Zero)
               <=> (/\ ret.c1.r = ret.c2.r
                    /\ ret.c1.g = ret.c2.g
                    /\ ret.c1.b = ret.c2.b))

C4_Witness ==
    /\ Returned("color_diff")
    /\ ret.alg = "L2"
    /\ ret.c1 = Color(0, 0, 0, 0)
    /\ ret.c2 = Color(0, 0, 0, 255)
    /\ ret.value = U64Zero

\* the candidate's own result as a (pixels, loss) pair
Pair(r) == [pixels |-> r.pixels, loss |-> r.loss]

\* C5: BestPalette.convert_image_with_loss evaluates every candidate on the
\* same image and options and returns the (pixels, loss) pair of the
\* candidate with the smallest loss: the returned loss is the minimum of the
\* candidates' own losses, and of several candidates sharing the minimum
\* the earliest in the sequence is returned.
C5_BestIsFirstMinimum ==
    (Converted /\ depth.kind = "Best")
        => /\ Len(yielded) = Len(depth.cands)
           /\ \E k \in 1..Len(yielded) :
                 /\ Pair(ret) = yielded[k]
                 /\ \A j \in 1..Len(yielded) :
                       ~U64Less(yielded[j].loss, yielded[k].loss)
                 /\ \A j \in 1..(k - 1) : yielded[j].loss # yielded[k].loss

C5_Witness ==
    /\ Converted
    /\ depth = PALETTE_CGA_MODE4
    /\ Len(yielded) = 4
    /\ \E k \in 2..4 : \E j \in 1..(k - 1) :
          /\ yielded[j].loss = yielded[k].loss
          /\ yielded[j].pixels # yielded[k].pixels
          /\ Pair(ret) = yielded[j]

\* C6: build_palette never returns more colours than requested: for every
\* pixel buffer and every N >= 1 the palette it returns has length <= N.
C6_PaletteAtMostRequested ==
    (pc \in {"remap", "done"} /\ options # NoOptions
       /\ options.num_colors # None /\ options.num_colors[1] >= 1)
        => Len(palette) <= options.num_colors[1]

C6_Witness ==
    /\ pc = "remap"
    /\ options.num_colors = Some(MaxColors)
    /\ Len(palette) = MaxColors
    /\ Len(image) = 1

\* the sum over positions 1..n of the colour distances of a and b
RECURSIVE SumOfDiffs(_, _, _, _)
SumOfDiffs(alg, a, b, n) ==
    IF n = 0 THEN U64Zero
    ELSE U64Add(SumOfDiffs(alg, a, b, n - 1), color_diff(alg, a[n], b[n]))

\* C7: for every strategy and either value of options.loss, the loss
\* returned by convert_image_with_loss is the sum over all pixel positions
\* of options.loss.color_diff(original pixel, returned pixel at the same
\* position): the loss is reported in the metric the caller selected.
C7_LossInSelectedMetric ==
    Converted
        => /\ Len(ret.pixels) = Len(image)
           /\ ret.loss = SumOfDiffs(options.loss, Original(image), ret.pixels,
                                    Len(image))

C7_Witness ==
    /\ Converted
    /\ depth = PALETTE_CGA_MODE4
    /\ options.loss = "L2"
    /\ Len(image) = 2
    /\ ret.loss # U64Zero
    /\ ret.loss # SumOfDiffs("L1", Original(image), ret.pixels, Len(image))

\* C8: image_diff(a, b) is defined only for equal-length buffers: when the
\* lengths differ the call panics, returning no value computed from a
\* truncated or padded buffer; when they are equal it returns the sum of
\* color_diff over corresponding elements.
C8_ImageDiffEqualLengths ==
    Returned("image_diff")
        => IF Len(ret.a) # Len(ret.b)
           THEN ret.res = [outcome |-> "panic"]
           ELSE ret.res = [outcome |-> "ok",
                           value |-> SumOfDiffs(ret.alg, ret.a, ret.b, Len(ret.a))]

C8_Witness ==
    /\ Returned("image_diff")
    /\ Len(ret.a) = 2
    /\ Len(ret.b) = 1
    /\ ret.a[1] = ret.b[1]
    /\ ret.res.outcome = "panic"

\* C9 as stated: colors_to_image(width, height, pixels) fails the call
\* whenever the number of supplied pixels differs from width * height,
\* whether there are too few or too many.
C9_FailsUnlessExact ==
    (Returned("colors_to_image") /\ Len(ret.pixels) # ret.width * ret.height)
        => ret.res.outcome = "panic"

\* pixel i of an image buffer, in row-major order
PixelAt(img, i) == <<img.data[3 * i - 2], img.data[3 * i - 1], img.data[3 * i]>>

\* C9 amended: colors_to_image(width, height, pixels) fails the call
\* whenever fewer than width * height pixels are supplied, and never pads;
\* when at least width * height pixels are supplied it returns a width x
\* height image whose pixels are the first width * height supplied ones, in
\* order, so surplus pixels do not fail the call.
C9_FailsOnlyWhenTooFew ==
    Returned("colors_to_image")
        => IF Len(ret.pixels) < ret.width * ret.height
           THEN ret.res.outcome = "panic"
           ELSE /\ ret.res.outcome = "ok"
                /\ ret.res.image.width = ret.width
                /\ ret.res.image.height = ret.height
                /\ \A i \in 1..(ret.width * ret.height) :
                      PixelAt(ret.res.image, i)
                          = <<ret.pixels[i].r, ret.pixels[i].g, ret.pixels[i].b>>

C9_Witness ==
    /\ Returned("colors_to_image")
    /\ ret.width = 2
    /\ ret.height = 1
    /\ Len(ret.pixels) = 3
    /\ ret.res.outcome = "ok"
    /\ PixelAt(ret.res.image, 2) = <<200, 100, 50>>

\* a channel that keeps its `bits` high-order bits and has the vacated
\* low-order bits filled with a copy of its own highest-order bits
KeepAndFill(v, bits) ==
    (v \div Pow2(8 - bits)) * Pow2(8 - bits) + v \div Pow2(bits)

ExpectedPixel(d, p) ==
    IF d = Vga18Bit
    THEN Color(KeepAndFill(p[1], 6), KeepAndFill(p[2], 6), KeepAndFill(p[3], 6), 255)
    ELSE Color(KeepAndFill(p[1], 5), KeepAndFill(p[2], 6), KeepAndFill(p[3], 5), 255)

\* C10: with no colour cap, Vga18Bit and Vga16Bit are per-pixel maps:
\* output pixel i depends only on input pixel i, each channel keeping its
\* high-order bits (6 per channel for 18-bit; 5 red, 6 green, 5 blue for
\* 16-bit) with the vacated low-order bits filled from the channel's own
\* highest-order bits; a uniform image gives a uniform output.
C10_VgaPerPixelBitFill ==
    (Converted /\ depth \in {Vga18Bit, Vga16Bit} /\ options.num_colors = None)
        => /\ Len(ret.pixels) = Len(image)
           /\ \A i \in 1..Len(image) : ret.pixels[i] = ExpectedPixel(depth, image[i])
           /\ \A i, j \in 1..Len(image) :
                 image[i] = image[j] => ret.pixels[i] = ret.pixels[j]

C10_Witness ==
    /\ Converted
    /\ depth = Vga16Bit
    /\ options.num_colors = None
    /\ image = << <<128, 128, 128>>, <<128, 128, 128>> >>
    /\ ret.pixels = << Rgb(132, 130, 132), Rgb(132, 130, 132) >>

\* C11: FixedPalette::convert_color is idempotent: for every non-empty
\* palette and every colour c, convert_color(convert_color(c)) is
\* convert_color(c).
C11_ConvertColorIdempotent ==
    Returned("convert_color") => ret.again = ret.value

C11_Witness ==
    /\ Returned("convert_color")
    /\ ret.palette = BW_1BIT
    /\ ret.pixel = Rgb(128, 128, 128)
    /\ ret.value = Rgb(255, 255, 255)
    /\ ret.again = Rgb(255, 255, 255)

\* squared Euclidean distance between the RGB channels of c and entry e
SquaredDistance(c, e) ==
    (c.r - e[1]) * (c.r - e[1]) + (c.g - e[2]) * (c.g - e[2])
        + (c.b - e[3]) * (c.b - e[3])

\* the lowest index of an entry of palette_array nearest to c
FirstNearest(palette_array, c) ==
    CHOOSE k \in 1..Len(palette_array) :
        /\ \A j \in 1..Len(palette_array) :
              SquaredDistance(c, palette_array[k]) <= SquaredDistance(c, palette_array[j])
        /\ \A j \in 1..(k - 1) :
              SquaredDistance(c, palette_array[k]) < SquaredDistance(c, palette_array[j])

\* C17: FixedPalette::convert_color(c) returns, for every non-empty palette
\* and every colour c, a palette entry whose squared Euclidean RGB distance
\* to c is minimal over the whole array; of several entries at the minimal
\* distance the one with the lowest index is returned; the alpha is 255.
C17_NearestEntryFirstOnTie ==
    Returned("convert_color")
        => LET e == ret.palette[FirstNearest(ret.palette, ret.pixel)]
           IN  ret.value = Color(e[1], e[2], e[3], 255)

C17_Witness ==
    /\ Returned("convert_color")
    /\ ret.palette = << <<0, 0, 0>>, <<2, 0, 0>> >>
    /\ ret.pixel = Rgb(1, 0, 0)
    /\ ret.value = Rgb(0, 0, 0)

\* the truncated square root of a natural number up to 3 * 255 * 255
FloorSqrt(n) == CHOOSE k \in 0..441 : k * k <= n /\ n < (k + 1) * (k + 1)

\* C14: for every pair of 8-bit colours, the L2 color_diff is the integer
\* (floor) square root of (r1-r2)^2 + (g1-g2)^2 + (b1-b2)^2, whichever of
\* the two colours has the larger value in each channel; the result never
\* exceeds 441.
C14_L2IsFloorSqrt ==
    (Returned("color_diff") /\ ret.alg = "L2")
        => /\ ret.value
                = U64From(FloorSqrt((ret.c1.r - ret.c2.r) * (ret.c1.r - ret.c2.r)
                                    + (ret.c1.g - ret.c2.g) * (ret.c1.g - ret.c2.g)
                                    + (ret.c1.b - ret.c2.b) * (ret.c1.b - ret.c2.b)))
           /\ ~U64Less(U64From(441), ret.value)

\* the element at index len / 2 (from 0) of the sorted values of s
Median(s) ==
    CHOOSE v \in { s[i] : i \in 1..Len(s) } :
        /\ Cardinality({ i \in 1..Len(s) : s[i] < v }) <= Len(s) \div 2
        /\ Cardinality({ i \in 1..Len(s) : s[i] <= v }) > Len(s) \div 2

\* C15: the background colour chosen by BackForePalette has, for each of
\* the three channels independently, the median of that same channel over
\* all image pixels (the element at index len/2 of the sorted channel
\* values), with alpha 255.
C15_MedianPerChannel ==
    Returned("background_color")
        => ret.value
             = Color(Median([i \in 1..Len(ret.image) |-> ret.image[i][1]]),
                     Median([i \in 1..Len(ret.image) |-> ret.image[i][2]]),
                     Median([i \in 1..Len(ret.image) |-> ret.image[i][3]]),
                     255)

\* C16: for any image and any options, with or without a colour cap, every
\* pixel returned by BackForePalette.convert_image_with_loss is one of the
\* configured foreground colours or the single chosen background colour,
\* and that background colour is an entry of the configured background
\* palette.
C16_BackForePixelsInPalette ==
    (Converted /\ depth.kind = "BackFore")
        => LET bkg_color == convert_color_back(depth, background_color(image))
           IN  /\ bkg_color \in PaletteColors(depth.back)
               /\ \A i \in 1..Len(ret.pixels) :
                     ret.pixels[i] \in PaletteColors(depth.fore) \cup { bkg_color }

\* C13: crop(image, left, top, width, height), for a rectangle lying inside
\* the image, returns an image of exactly width x height whose pixel at
\* (x, y) is the source pixel at (left + x, top + y) for every x < width and
\* y < height.
C13_CropCopiesRectangle ==
    (Returned("crop")
       /\ ret.left + ret.width <= ret.image.width
       /\ ret.top + ret.height <= ret.image.height)
        => /\ ret.res.outcome = "ok"
           /\ ret.res.image.width = ret.width
           /\ ret.res.image.height = ret.height
           /\ Len(ret.res.image.data) = 3 * ret.width * ret.height
           /\ \A x \in 0..(ret.width - 1), y \in 0..(ret.height - 1) :
                 PixelAt(ret.res.image, y * ret.width + x + 1)
                     = PixelAt(ret.image,
                               (ret.top + y) * ret.image.width + ret.left + x + 1)

C13_Witness ==
    /\ Returned("crop")
    /\ ret.image.width = 2
    /\ ret.image.height = 2
    /\ ret.left = 1
    /\ ret.top = 1
    /\ ret.width = 1
    /\ ret.height = 1
    /\ ret.res.outcome = "ok"
    /\ ret.res.image.data = <<1, 1, 200>>

\* C12: resolve_output_resolution returns the error Non exactly when none
\* of pixel_ratio, output_width, output_height is given, RatioWithoutSide
\* exactly when pixel_ratio is given without a width or height, and TooMany
\* exactly when all three are given; for every other combination (with
\* positive input width, height and ratio) it returns Ok with each
\* explicitly given output side returned unchanged.
C12_ResolutionErrorsAndGivenSides ==
    Returned("resolve_output_resolution")
        => LET given == Cardinality({ o \in { <<"r", ret.pixel_ratio>>,
                                              <<"w", ret.output_width>>,
                                              <<"h", ret.output_height>> } :
                                        o[2] # None })
           IN  /\ (ret.res = Err("Non")) <=> (given = 0)
               /\ (ret.res = Err("RatioWithoutSide"))
                     <=> (given = 1 /\ ret.pixel_ratio # None)
               /\ (ret.res = Err("TooMany")) <=> (given = 3)
               /\ ~(given = 0 \/ given = 3 \/ (given = 1 /\ ret.pixel_ratio # None))
                     => /\ ret.res.outcome = "ok"
                        /\ ret.output_width # None
                              => ret.res.value[1] = ret.output_width[1]
                        /\ ret.output_height # None
                              => ret.res.value[2] = ret.output_height[1]
====
